---- MODULE Spec2Model ----
(***************************************************************************)
(* GarageDoor433: the recording lifecycle of main.py (App) together with   *)
(* the signal recorder of signal_recorder.py (edge capture, pulse          *)
(* reconstruction, protocol detection, frame extraction, replay, slot      *)
(* store) and the radio mode of sx1276_ook.py.                             *)
(*                                                                         *)
(* Concurrency: one cooperative main loop (App.run) whose position is pc,  *)
(* plus two interrupt sources that may run between any two main-loop       *)
(* steps: the DIO2 edge interrupt (SignalRecorder._irq_handler) and the    *)
(* BLE write interrupt (BLEService._irq -> App._handle_command).           *)
(***************************************************************************)
EXTENDS Integers, Sequences, FiniteSets, TLC

(* ---------------- program constants ---------------- *)
STATE_IDLE == 0
STATE_RECORDING == 1
STATE_CAPTURED == 2
STATE_REPLAYING == 3

MIN_PULSE_US == 100
MAX_GAP_US == 20000
CAPTURE_TIMEOUT_MS == 5000
MAX_PULSES == 500
MAX_SLOTS == 5
REPLAY_REPEATS == 8
MERGE_THRESH == 250
SETTLE_MS == 100

\* time.ticks_us() wraps modulo 2^30 on MicroPython
TICKS_PERIOD == 1073741824

(* ---------------- bounds of the model ---------------- *)
\* edge interrupts per recording session explored by Spec
MaxEdges == 9
\* modelled duration of one pass of the main loop (>= the 10 ms sleep)
TickMs == 2500
\* edge interrupts beyond the buffer capacity explored by SpecCap
ExtraEdges == 3
\* repeat counts 0 .. MaxRepeats (and the default) explored by SpecReplay
MaxRepeats == 3
\* times between edges per capture (3 .. MaxIntervals) explored by SpecRecon
MaxIntervals == 5

(* ---------------- helpers ---------------- *)
Min(a, b) == IF a < b THEN a ELSE b

\* s[a] + ... + s[b], summed by halves
RECURSIVE SumRange(_, _, _)
SumRange(s, a, b) ==
  IF a > b THEN 0
  ELSE IF a = b THEN s[a]
  ELSE LET m == (a + b) \div 2
       IN  SumRange(s, a, m) + SumRange(s, m + 1, b)
\* sum(s)
SumSeq(s) == SumRange(s, 1, Len(s))
\* max(s), for non-empty s
MaxSeq(s) == CHOOSE m \in {s[i] : i \in 1 .. Len(s)} : \A i \in 1 .. Len(s) : s[i] <= m

\* s[a:b] with Python's 0-based, end-exclusive, clamped slice bounds
Slice(s, a, b) == SubSeq(s, a + 1, Min(b, Len(s)))

(* ---------------- pulse reconstruction ---------------- *)
\* time.ticks_diff(a, b): wraparound-safe signed difference
ticks_diff(a, b) ==
  LET d == (a - b) % TICKS_PERIOD
  IN  IF d >= TICKS_PERIOD \div 2 THEN d - TICKS_PERIOD ELSE d

\* step 1 of _process_edges
Intervals(raw) == [i \in 1 .. (Len(raw) - 1) |-> ticks_diff(raw[i + 1], raw[i])]

\* mutant: the even and the odd glitch count swapped
GlitchStep_parity(st, x) ==
  IF x < MERGE_THRESH
  THEN [acc |-> st.acc + x, gc |-> st.gc + 1, clean |-> st.clean]
  ELSE [acc |-> 0, gc |-> 0, clean |->
          IF st.gc = 0
          THEN Append(st.clean, x)
          ELSE IF st.gc % 2 = 0
               THEN Append(IF st.acc >= MIN_PULSE_US
                           THEN Append(st.clean, st.acc)
                           ELSE st.clean, x)
               ELSE Append(st.clean, st.acc + x)]

\* mutant: an odd glitch run emitted whatever its total
GlitchStep_nomin(st, x) ==
  IF x < MERGE_THRESH
  THEN [acc |-> st.acc + x, gc |-> st.gc + 1, clean |-> st.clean]
  ELSE [acc |-> 0, gc |-> 0, clean |->
          IF st.gc = 0
          THEN Append(st.clean, x)
          ELSE IF st.gc % 2 = 1
               THEN Append(Append(st.clean, st.acc), x)
               ELSE Append(st.clean, st.acc + x)]

\* step 2 of _process_edges. The loop carries the accumulator acc, the
\* glitch count gc and the output clean; GlitchStep is one pass of its body,
\* on the interval x
GlitchStep(st, x) ==
  IF x < MERGE_THRESH
  THEN [acc |-> st.acc + x, gc |-> st.gc + 1, clean |-> st.clean]
  ELSE [acc |-> 0, gc |-> 0, clean |->
          IF st.gc = 0
          THEN Append(st.clean, x)
          ELSE IF st.gc % 2 = 1
               THEN Append(IF st.acc >= MIN_PULSE_US
                           THEN Append(st.clean, st.acc)
                           ELSE st.clean, x)
               ELSE Append(st.clean, st.acc + x)]

\* the passes of the loop over iv[a] .. iv[b], in this order, from state st:
\* those over iv[a] .. iv[m] leave the state s, from which those over
\* iv[m + 1] .. iv[b] go on
RECURSIVE GlitchWalk(_, _, _, _)
GlitchWalk(iv, a, b, st) ==
  IF a > b THEN st
  ELSE IF a = b THEN GlitchStep(st, iv[a])
  ELSE LET m == (a + b) \div 2
       IN  CHOOSE r \in {GlitchWalk(iv, m + 1, b, s) : s \in {GlitchWalk(iv, a, m, st)}} : TRUE

\* the whole of step 2: the loop, then the trailing glitch run
\* mutant: a trailing odd run emitted whatever its total
TrailingGlitches_nomin(st) ==
  IF st.gc > 0 /\ st.gc % 2 = 1
  THEN Append(st.clean, st.acc) ELSE st.clean
\* the trailing glitch accumulator of step 2
TrailingGlitches(st) ==
  IF st.gc > 0 /\ st.gc % 2 = 1 /\ st.acc >= MIN_PULSE_US
  THEN Append(st.clean, st.acc) ELSE st.clean
MergeGlitches(iv) ==
  CHOOSE clean \in
    {TrailingGlitches(st)
       : st \in {GlitchWalk(iv, 1, Len(iv), [acc |-> 0, gc |-> 0, clean |-> <<>>])}} : TRUE

CleanIntervals(raw) == MergeGlitches(Intervals(raw))

\* mutant: pairing starts at the anchor itself
AnchorStart_at(clean) ==
  LET big == {i \in 1 .. Len(clean) : clean[i] > MAX_GAP_US \div 2}
  IN  IF big = {} THEN 0
      ELSE (CHOOSE i \in big : \A j \in big : i <= j) - 1
\* step 3 of _process_edges: 0-based index at which pairing starts
AnchorStart(clean) ==
  LET big == {i \in 1 .. Len(clean) : clean[i] > MAX_GAP_US \div 2}
  IN  IF big = {} THEN 0
      ELSE CHOOSE i \in big : \A j \in big : i <= j

\* step 4 of _process_edges: the loop visits i = start, start + 2, ... while
\* i + 1 < len(clean), and keeps the pair (clean[i], clean[i + 1]) whose
\* high is long enough
KeepPulse(q) == q.high >= MIN_PULSE_US
PairIntervals(clean, start) ==
  LET n == (Len(clean) - start) \div 2
      pairs == [k \in 1 .. n |-> [high |-> clean[start + 2 * k - 1],
                                  low |-> clean[start + 2 * k]]]
  IN  SelectSeq(pairs, KeepPulse)

\* mutant: the raw intervals paired as they come, nothing merged or dropped
ProcessEdges_raw(raw) ==
  IF Len(raw) < 4 THEN <<>>
  ELSE LET iv == Intervals(raw)
       IN  [k \in 1 .. (Len(iv) \div 2) |-> [high |-> iv[2 * k - 1], low |-> iv[2 * k]]]

\* mutant: the minimum edge count one too low
ProcessEdges_mut(raw) ==
  IF Len(raw) < 3 THEN <<>>
  ELSE CHOOSE p \in {PairIntervals(clean, AnchorStart(clean))
                       : clean \in {CleanIntervals(raw)}} : TRUE

\* _process_edges: the value of self.pulses it leaves. clean is the list
\* that step 2 has built, from which steps 3 and 4 make the pulses
ProcessEdges(raw) ==
  IF Len(raw) < 4 THEN <<>>
  ELSE CHOOSE p \in {PairIntervals(clean, AnchorStart(clean))
                       : clean \in {CleanIntervals(raw)}} : TRUE

\* mutant: the has_signal threshold one too low
has_signal_mut(p) == Len(p) >= 3
\* has_signal
has_signal(p) == Len(p) >= 4
(* ---------------- protocol detection ---------------- *)
\* the high durations of p that are short (< 600) or long (>= 600)
IsShort(h) == h > 0 /\ h < 600
IsLong(h) == h > 0 /\ ~(h < 600)
Highs(p) == [i \in 1 .. Len(p) |-> p[i].high]
SelectHighs(p, short) ==
  IF short THEN SelectSeq(Highs(p), IsShort) ELSE SelectSeq(Highs(p), IsLong)

\* the low durations of p that are positive
IsPositive(l) == l > 0
PositiveLows(p) == SelectSeq([i \in 1 .. Len(p) |-> p[i].low], IsPositive)

\* the counting loop of detect_protocol: pulses counted up to and including
\* the first one whose low exceeds 0.7 * max_low (all of them if none does)
FramePulses(p, max_low) ==
  LET over == {i \in 1 .. Len(p) : 10 * p[i].low > 7 * max_low}
  IN  IF over = {} THEN Len(p)
      ELSE CHOOSE i \in over : \A j \in over : i <= j

\* The means and the ratio of detect_protocol are floats. sum / n is exact
\* when n divides sum * 2^k for a small k (n <= 50); otherwise it is rounded
MeanExact(sum, n) == \E k \in 0 .. 6 : (sum * (2 ^ k)) % n = 0

\* how a ratio avg_long / avg_short whose exact value is 2.5 or 3.5 compares
\* when a mean it is computed from was rounded: it can come out on either
\* side of the edge, depending on the operands and the float width of the
\* build ("in": inside the band, "out": on the edge or outside)
FloatTies == {"out", "in"}

\* 2.5 < ratio < 3.5, cross-multiplied; away from the two edges the
\* rounding cannot change the result for windows of this size
RatioInBand(sumS, nS, sumL, nL, fp) ==
  LET lo == 5 * nL * sumS
      x == 2 * sumL * nS
      hi == 7 * nL * sumS
  IN  IF x = lo \/ x = hi
      THEN fp = "in" /\ ~(MeanExact(sumS, nS) /\ MeanExact(sumL, nL))
      ELSE lo < x /\ x < hi

\* mutant: the window is the whole signal
Window_whole(p) == p
\* self.pulses[:50], the pulses detect_protocol examines
Window(p) == Slice(p, 0, 50)

\* mutant: the longest low compared with the mean of the other lows
SyncGapStandsOut_rest(lows) ==
  MaxSeq(lows) * (Len(lows) - 1) > 5 * (SumSeq(lows) - MaxSeq(lows))
\* mutant: at least 5 times the mean
SyncGapStandsOut_atleast(lows) == MaxSeq(lows) * Len(lows) >= 5 * SumSeq(lows)
\* max_low > avg_low * 5, cross-multiplied, for non-empty lows
SyncGapStandsOut(lows) == MaxSeq(lows) * Len(lows) > 5 * SumSeq(lows)

\* detect_protocol; fp resolves a rounded ratio on a band edge. The other
\* two float comparisons, max_low > (sum/n)*5 and low > max_low*0.7, give
\* the exact result in the single-precision floats of the ESP32 build for
\* integer durations of the size a capture can hold
detect_protocol(p, fp) ==
  IF Len(p) < 4 THEN "unknown"
  ELSE
    LET win == Window(p)
        short_pulses == SelectHighs(win, TRUE)
        long_pulses == SelectHighs(win, FALSE)
        sumS == SumSeq(short_pulses)
        nS == Len(short_pulses)
        sumL == SumSeq(long_pulses)
        nL == Len(long_pulses)
        lows == PositiveLows(win)
        max_low == MaxSeq(lows)
        frame_pulses == FramePulses(p, max_low)
    IN  IF nS > 0 /\ nL > 0 /\ RatioInBand(sumS, nS, sumL, nL, fp)
        THEN IF lows # <<>> /\ SyncGapStandsOut(lows)
             THEN IF 11 <= frame_pulses /\ frame_pulses <= 14 THEN "PT2262"
                  ELSE IF 19 <= frame_pulses /\ frame_pulses <= 22 THEN "EV1527"
                  ELSE "PT2262/EV1527"
             ELSE "PT2262/EV1527"
        ELSE "unknown"

(* ---------------- frame extraction ---------------- *)
\* mutant: the second sync pulse left out
extract_single_frame_open(p) ==
  IF Len(p) < 4 THEN p
  ELSE
    LET lows == PositiveLows(p)
        n == Len(lows)
        total == SumSeq(lows)
        sync == {i \in 0 .. (Len(p) - 1) :
                   p[i + 1].low > 0 /\ p[i + 1].low * n > 3 * total}
        first == CHOOSE i \in sync : \A j \in sync : i <= j
        second == CHOOSE i \in sync \ {first} : \A j \in sync \ {first} : i <= j
    IN  IF lows = <<>> THEN p
        ELSE IF Cardinality(sync) >= 2 THEN Slice(p, first + 1, second)
        ELSE IF Cardinality(sync) = 1 THEN Slice(p, 0, first + 1)
        ELSE p
\* mutant: the only sync pulse left out
extract_single_frame_short(p) ==
  IF Len(p) < 4 THEN p
  ELSE
    LET lows == PositiveLows(p)
        n == Len(lows)
        total == SumSeq(lows)
        sync == {i \in 0 .. (Len(p) - 1) :
                   p[i + 1].low > 0 /\ p[i + 1].low * n > 3 * total}
        first == CHOOSE i \in sync : \A j \in sync : i <= j
        second == CHOOSE i \in sync \ {first} : \A j \in sync \ {first} : i <= j
    IN  IF lows = <<>> THEN p
        ELSE IF Cardinality(sync) >= 2 THEN Slice(p, first + 1, second + 1)
        ELSE IF Cardinality(sync) = 1 THEN Slice(p, 0, first)
        ELSE p
\* mutant: with one sync pulse, the pulses after it instead of those up to it
extract_single_frame_tail(p) ==
  IF Len(p) < 4 THEN p
  ELSE
    LET lows == PositiveLows(p)
        n == Len(lows)
        total == SumSeq(lows)
        sync == {i \in 0 .. (Len(p) - 1) :
                   p[i + 1].low > 0 /\ p[i + 1].low * n > 3 * total}
        first == CHOOSE i \in sync : \A j \in sync : i <= j
        second == CHOOSE i \in sync \ {first} : \A j \in sync \ {first} : i <= j
    IN  IF lows = <<>> THEN p
        ELSE IF Cardinality(sync) >= 2 THEN Slice(p, first + 1, second + 1)
        ELSE IF Cardinality(sync) = 1 THEN Slice(p, first + 1, Len(p))
        ELSE p
\* extract_single_frame; sync holds the 0-based sync indices
extract_single_frame(p) ==
  IF Len(p) < 4 THEN p
  ELSE
    LET lows == PositiveLows(p)
        n == Len(lows)
        total == SumSeq(lows)
        sync == {i \in 0 .. (Len(p) - 1) :
                   p[i + 1].low > 0 /\ p[i + 1].low * n > 3 * total}
        first == CHOOSE i \in sync : \A j \in sync : i <= j
        second == CHOOSE i \in sync \ {first} : \A j \in sync \ {first} : i <= j
    IN  IF lows = <<>> THEN p
        ELSE IF Cardinality(sync) >= 2 THEN Slice(p, first + 1, second + 1)
        ELSE IF Cardinality(sync) = 1 THEN Slice(p, 0, first + 1)
        ELSE p
(* ---------------- slot store ---------------- *)
\* paths slot_<n>.json the model can name (0 and MAX_SLOTS+1 are out of range)
SlotPaths == 0 .. (MAX_SLOTS + 1)
Missing == [kind |-> "missing"]
Corrupt == [kind |-> "corrupt"]

\* json.dump turns each (high, low) tuple into a two-element list
PulsesToJson(f) == [i \in 1 .. Len(f) |-> <<f[i].high, f[i].low>>]
\* mutant: high and low swapped on the way back
PulsesFromJson_mut(j) == [i \in 1 .. Len(j) |-> [high |-> j[i][2], low |-> j[i][1]]]
\* load_signal turns the lists back into tuples
PulsesFromJson(j) == [i \in 1 .. Len(j) |-> [high |-> j[i][1], low |-> j[i][2]]]

\* mutant: the lower slot bound one too low
SlotValid_mut(slot) == ~(slot < 0 \/ slot > MAX_SLOTS)
\* the range check of save_signal
SlotValid(slot) == ~(slot < 1 \/ slot > MAX_SLOTS)

\* save_signal: the dict that is dumped. The frame is the extracted single
\* frame, the protocol is detect_protocol() of the whole capture
SlotRecord(p, name, fp) ==
  LET fr == extract_single_frame(p)
  IN  [kind |-> "record", name |-> name,
       pulses |-> PulsesToJson(fr),
       protocol |-> detect_protocol(p, fp),
       pulse_count |-> Len(fr)]

\* save_signal: open(path, "w") and json.dump. fs is what the filesystem
\* does with the write: "ok", "open_fails" (OSError before the file is
\* touched) or "write_fails" (the file was truncated by open and the dump
\* did not complete).
\* result: "true" / "false" (returned) or "raised" (exception propagates)
WriteSlot(fl, p, slot, name, fs, fp) ==
  IF fs = "open_fails" THEN [result |-> "raised", files |-> fl]
  ELSE IF fs = "write_fails"
       THEN [result |-> "raised", files |-> [fl EXCEPT ![slot] = Corrupt]]
       ELSE [result |-> "true", files |-> [fl EXCEPT ![slot] = SlotRecord(p, name, fp)]]

\* mutant: no range check
save_signal_mut(fl, p, slot, name, fs, fp) ==
  IF p = <<>> THEN [result |-> "false", files |-> fl]
  ELSE WriteSlot(fl, p, slot, name, fs, fp)

\* save_signal
save_signal(fl, p, slot, name, fs, fp) ==
  IF ~SlotValid(slot) THEN [result |-> "false", files |-> fl]
  ELSE IF p = <<>> THEN [result |-> "false", files |-> fl]
  ELSE WriteSlot(fl, p, slot, name, fs, fp)

\* mutant: an unparseable file is taken for a record without pulses
load_signal_mut(fl, slot) ==
  IF fl[slot].kind = "record"
  THEN [found |-> TRUE, name |-> fl[slot].name,
        pulses |-> PulsesFromJson(fl[slot].pulses)]
  ELSE IF fl[slot].kind = "corrupt"
  THEN [found |-> TRUE, name |-> "signal", pulses |-> <<>>]
  ELSE [found |-> FALSE, name |-> "", pulses |-> <<>>]

\* load_signal: None (found = FALSE) for a missing or unparseable file
load_signal(fl, slot) ==
  IF fl[slot].kind = "record"
  THEN [found |-> TRUE, name |-> fl[slot].name,
        pulses |-> PulsesFromJson(fl[slot].pulses)]
  ELSE [found |-> FALSE, name |-> "", pulses |-> <<>>]

\* mutant: every slot file is removed
delete_signal_mut(fl, slot) ==
  IF fl[slot].kind = "missing" THEN [result |-> FALSE, files |-> fl]
  ELSE [result |-> TRUE, files |-> [s \in SlotPaths |-> Missing]]

\* delete_signal: os.remove succeeds on any existing file
delete_signal(fl, slot) ==
  IF fl[slot].kind = "missing" THEN [result |-> FALSE, files |-> fl]
  ELSE [result |-> TRUE, files |-> [fl EXCEPT ![slot] = Missing]]

\* list_signals: slots slot .. last in order; a missing file (OSError) and
\* an unparseable one (ValueError) are skipped
RECURSIVE ListFrom(_, _, _)
ListFrom(fl, slot, last) ==
  IF slot > last THEN <<>>
  ELSE (IF fl[slot].kind = "record"
        THEN << [slot |-> slot, name |-> fl[slot].name,
                 pulse_count |-> fl[slot].pulse_count,
                 protocol |-> fl[slot].protocol] >>
        ELSE <<>>) \o ListFrom(fl, slot + 1, last)

\* mutant: the last slot is not looked at
list_signals_mut(fl) == ListFrom(fl, 1, MAX_SLOTS - 1)

\* list_signals: for slot in range(1, MAX_SLOTS + 1)
list_signals(fl) == ListFrom(fl, 1, MAX_SLOTS)

(* ---------------- commands ---------------- *)
NoSlot == -1
SlotInputs == {0, 1, MAX_SLOTS + 1}
NameInputs == {"door"}
NoCmd == [verb |-> "none", slot |-> NoSlot, name |-> ""]
\* a command line as received: what it asks for. Whether the line is a JSON
\* object or a legacy text line is decided when _process_command parses it.
Commands ==
  [verb : {"record", "stop", "other"}, slot : {NoSlot}, name : {""}]
  \cup [verb : {"play", "delete"}, slot : SlotInputs \cup {NoSlot}, name : {""}]
  \cup [verb : {"save"}, slot : SlotInputs \cup {NoSlot}, name : NameInputs]
StopCmd == [verb |-> "stop", slot |-> NoSlot, name |-> ""]

\* _process_command upper-cases a legacy line before it is split
Upper(n) == IF n = "door" THEN "DOOR" ELSE n
SaveName(c, fmt) ==
  IF fmt = "json" THEN (IF c.name = "" THEN "signal" ELSE c.name)
  ELSE (IF c.name = "" THEN "signal" ELSE Upper(c.name))

FsOutcomes == {"ok", "open_fails", "write_fails"}
\* inputs of the edge interrupt: first timestamp of a session, and the time
\* between two edges
StartTicks == {TICKS_PERIOD - 1000}
Deltas == {400}

(* ---------------- state ---------------- *)
VARIABLES
  state,        \* App.state
  last_slot,    \* App.last_slot
  pending_cmd,  \* App._pending_cmd (NoCmd for None)
  pending_at,   \* App.state when pending_cmd was delivered (history)
  recording,    \* SignalRecorder.recording
  replaying,    \* SignalRecorder.replaying
  armed,        \* the DIO2 edge interrupt has a handler installed
  edges,        \* SignalRecorder._edges
  irqs,         \* edge interrupts since _edges was last reset (history)
  pulses,       \* SignalRecorder.pulses
  pulse_count,  \* SignalRecorder.pulse_count
  elapsed,      \* ticks_diff(ticks_ms(), capture_start), saturated at the timeout
  radio,        \* SX1276 operating mode: "idle" (standby), "rx", "tx"
  line,         \* level driven on DIO2 by replay
  files,        \* /signals/slot_<n>.json
  pc,           \* position of the main loop
  ret,          \* caller of the replay in progress ("none" outside replay)
  rep,          \* frames transmitted by the replay in progress
  frame,        \* pulses argument of the replay in progress
  repeats,      \* repeats argument of the replay in progress
  idx,          \* pulses of the current frame already sent by _replay_frame
  returned,     \* what replay() returned to the handler ("none" before it returns)
  replay_log,   \* what the loop of the replay in progress did, in order
  resp          \* response sent by the last main-loop step ("none" if none)

vars == <<state, last_slot, pending_cmd, pending_at, recording, replaying, armed, edges,
          irqs, pulses, pulse_count, elapsed, radio, line, files, pc, ret,
          rep, frame, repeats, idx, returned, replay_log, resp>>

recorderVars == <<recording, armed, edges, irqs, pulses, pulse_count, elapsed, radio>>
replayVars == <<replaying, line, ret, rep, frame, repeats, idx, returned, replay_log>>

Init ==
  /\ state = STATE_IDLE
  /\ last_slot = 1
  /\ pending_cmd = NoCmd
  /\ pending_at = STATE_IDLE
  /\ recording = FALSE
  /\ replaying = FALSE
  /\ armed = FALSE
  /\ edges = <<>>
  /\ irqs = 0
  /\ pulses = <<>>
  /\ pulse_count = 0
  /\ elapsed = 0
  /\ radio = "idle"
  /\ line = 0
  /\ files = [s \in SlotPaths |-> Missing]
  /\ pc = "cmd"
  /\ ret = "none"
  /\ rep = 0
  /\ frame = <<>>
  /\ repeats = REPLAY_REPEATS
  /\ idx = 0
  /\ returned = "none"
  /\ replay_log = <<>>
  /\ resp = "none"
(* ---------------- recorder operations ---------------- *)
\* mutant: no capacity check
irq_handler_mut(e, now) == Append(e, now)

\* _irq_handler: append the timestamp unless the buffer is full
irq_handler(e, now) ==
  IF Len(e) < MAX_PULSES * 2 THEN Append(e, now) ELSE e

\* mutant: the previous pulses are not cleared
start_recording_mut ==
  [recording |-> TRUE, pulses |-> pulses, edges |-> <<>>, pulse_count |-> 0,
   elapsed |-> SETTLE_MS, radio |-> "rx", armed |-> TRUE]

\* start_recording: the recorder fields it leaves (the edges caught during
\* the settle period are drained before the interrupt is installed)
start_recording ==
  [recording |-> TRUE, pulses |-> <<>>, edges |-> <<>>, pulse_count |-> 0,
   elapsed |-> SETTLE_MS, radio |-> "rx", armed |-> TRUE]

\* stop_recording: interrupt removed, radio to standby, edges reconstructed
\* (pulse_count is only assigned when _process_edges runs to its end)
stop_recording ==
  LET p == ProcessEdges(edges)
  IN  [recording |-> FALSE, armed |-> FALSE, radio |-> "idle", pulses |-> p,
       pulse_count |-> IF Len(edges) < 4 THEN pulse_count ELSE Len(p)]

\* is_capture_timeout
is_capture_timeout == recording /\ elapsed >= CAPTURE_TIMEOUT_MS

(* ---------------- command handlers ---------------- *)
\* mutants: the state guards of record and stop only exclude Replaying
RecordAllowed_mut(s) == s # STATE_REPLAYING
StopAllowed_mut(s) == s # STATE_REPLAYING
\* the state guards of the record and stop handlers
RecordAllowed(s) == s = STATE_IDLE \/ s = STATE_CAPTURED
StopAllowed(s) == s = STATE_RECORDING

\* action "record" / verb RECORD
DoRecord(c, next) ==
  /\ IF RecordAllowed(state)
     THEN LET r == start_recording
          IN  /\ state' = STATE_RECORDING
              /\ recording' = r.recording
              /\ pulses' = r.pulses
              /\ edges' = r.edges
              /\ irqs' = 0
              /\ pulse_count' = r.pulse_count
              /\ elapsed' = r.elapsed
              /\ radio' = r.radio
              /\ armed' = r.armed
              /\ resp' = "ok record"
     ELSE /\ resp' = "Busy"
          /\ UNCHANGED <<state, recorderVars>>
  /\ pc' = next
  /\ UNCHANGED <<last_slot, files, replayVars>>

\* action "stop" / verb STOP (also run by the button and by the timeout)
DoStop(c, next) ==
  /\ IF StopAllowed(state)
     THEN LET r == stop_recording
          IN  /\ recording' = r.recording
              /\ armed' = r.armed
              /\ radio' = r.radio
              /\ pulses' = r.pulses
              /\ pulse_count' = r.pulse_count
              /\ IF has_signal(r.pulses)
                 THEN state' = STATE_CAPTURED /\ resp' = "ok stop"
                 ELSE state' = STATE_IDLE /\ resp' = "No signal detected"
              /\ UNCHANGED <<edges, irqs, elapsed>>
     ELSE /\ resp' = "Not recording"
          /\ UNCHANGED <<state, recorderVars>>
  /\ pc' = next
  /\ UNCHANGED <<last_slot, files, replayVars>>

\* the part of a play handler from the successful load up to the call of
\* replay(pulses, progress_cb=...): repeats takes its default
StartReplay(slot, loaded, caller) ==
  /\ state' = STATE_REPLAYING
  /\ last_slot' = IF caller = "button" THEN last_slot ELSE slot
  /\ resp' = IF caller = "button" THEN "none" ELSE "ok play"
  /\ ret' = caller
  /\ frame' = loaded.pulses
  /\ repeats' = REPLAY_REPEATS
  /\ rep' = 0
  /\ idx' = 0
  /\ returned' = "none"
  /\ replay_log' = <<>>
  /\ pc' = "replay_enter"
  /\ UNCHANGED <<files, recorderVars, replaying, line>>

\* action "play" / verb PLAY
DoPlay(c, fmt, next) ==
  IF c.slot = NoSlot
  THEN /\ resp' = "Missing slot"
       /\ pc' = next
       /\ UNCHANGED <<state, last_slot, files, recorderVars, replayVars>>
  ELSE LET loaded == load_signal(files, c.slot)
       IN  IF ~loaded.found
           THEN /\ resp' = "Slot empty"
                /\ pc' = next
                /\ UNCHANGED <<state, last_slot, files, recorderVars, replayVars>>
           ELSE StartReplay(c.slot, loaded, fmt)

\* action "save" / verb SAVE
DoSave(c, fmt, next) ==
  /\ pc' = next
  /\ UNCHANGED <<recorderVars, replayVars>>
  /\ IF c.slot = NoSlot
     THEN resp' = "Missing slot" /\ UNCHANGED <<state, last_slot, files>>
     ELSE IF ~has_signal(pulses)
     THEN resp' = "No signal to save" /\ UNCHANGED <<state, last_slot, files>>
     ELSE \E fs \in FsOutcomes, fp \in FloatTies :
            LET r == save_signal(files, pulses, c.slot, SaveName(c, fmt), fs, fp)
            IN  /\ files' = r.files
                /\ IF r.result = "true"
                   THEN last_slot' = c.slot /\ state' = STATE_IDLE /\ resp' = "ok save"
                   ELSE IF r.result = "false"
                   THEN resp' = "Save failed" /\ UNCHANGED <<state, last_slot>>
                   ELSE state' = STATE_IDLE /\ resp' = "Save error"
                        /\ UNCHANGED last_slot

\* action "delete" / verb DELETE
DoDelete(c, next) ==
  /\ pc' = next
  /\ UNCHANGED <<state, last_slot, recorderVars, replayVars>>
  /\ IF c.slot = NoSlot
     THEN resp' = "Missing slot" /\ UNCHANGED files
     ELSE LET r == delete_signal(files, c.slot)
          IN  /\ files' = r.files
              /\ resp' = IF r.result THEN "ok delete" ELSE "Slot not found"

\* get_slots, status, LIST, STATUS and unknown commands: a reply only
DoOther(c, next) ==
  /\ pc' = next
  /\ resp' = "other"
  /\ UNCHANGED <<state, last_slot, files, recorderVars, replayVars>>

Dispatch(c, fmt, next) ==
  \/ c.verb = "record" /\ DoRecord(c, next)
  \/ c.verb = "stop" /\ DoStop(c, next)
  \/ c.verb = "play" /\ DoPlay(c, fmt, next)
  \/ c.verb = "save" /\ DoSave(c, fmt, next)
  \/ c.verb = "delete" /\ DoDelete(c, next)
  \/ c.verb = "other" /\ DoOther(c, next)

\* _process_request: a JSON object with an "action"
ProcessRequest(c, next) == Dispatch(c, "json", next)
\* _process_legacy_command: any other line, upper-cased
ProcessLegacyCommand(c, next) == Dispatch(c, "legacy", next)
\* _process_command: JSON if the line parses as one, else legacy
ProcessCommand(c, next) == ProcessRequest(c, next) \/ ProcessLegacyCommand(c, next)

(* ---------------- main loop (App.run) ---------------- *)
\* mutant: the pending command is processed but left in place
LoopCommand_keep ==
  /\ pc = "cmd"
  /\ IF pending_cmd # NoCmd
     THEN /\ UNCHANGED <<pending_cmd, pending_at>>
          /\ ProcessCommand(pending_cmd, "button")
     ELSE /\ pc' = "button"
          /\ resp' = "none"
          /\ UNCHANGED <<state, last_slot, pending_cmd, pending_at, files, recorderVars, replayVars>>
\* "if self._pending_cmd:" - take the pending command and process it
LoopCommand ==
  /\ pc = "cmd"
  /\ IF pending_cmd # NoCmd
     THEN /\ pending_cmd' = NoCmd
          /\ pending_at' = STATE_IDLE
          /\ ProcessCommand(pending_cmd, "button")
     ELSE /\ pc' = "button"
          /\ resp' = "none"
          /\ UNCHANGED <<state, last_slot, pending_cmd, pending_at, files, recorderVars, replayVars>>

\* _check_button / _on_button_press; pressed: a debounced press is seen
CheckButton ==
  /\ pc = "button"
  /\ UNCHANGED <<pending_cmd, pending_at>>
  /\ \E pressed \in BOOLEAN :
       /\ IF pressed /\ state = STATE_IDLE
          THEN LET loaded == load_signal(files, last_slot)
               IN  IF loaded.found
                   THEN StartReplay(last_slot, loaded, "button")
                   ELSE /\ pc' = "timeout"
                        /\ resp' = "none"
                        /\ UNCHANGED <<state, last_slot, files, recorderVars, replayVars>>
          ELSE IF pressed /\ state = STATE_RECORDING
          THEN ProcessLegacyCommand(StopCmd, "timeout")
          ELSE /\ pc' = "timeout"
               /\ resp' = "none"
               /\ UNCHANGED <<state, last_slot, files, recorderVars, replayVars>>

\* _check_recording_timeout
CheckRecordingTimeout ==
  /\ pc = "timeout"
  /\ UNCHANGED <<pending_cmd, pending_at>>
  /\ IF state = STATE_RECORDING /\ is_capture_timeout
     THEN /\ ProcessLegacyCommand(StopCmd, "sleep")
     ELSE /\ pc' = "sleep"
          /\ resp' = "none"
          /\ UNCHANGED <<state, last_slot, files, recorderVars, replayVars>>

\* _update_display and time.sleep_ms(10): time passes. The time spent in
\* the other steps of a pass is counted here, in one advance of TickMs;
\* elapsed is only read by the timeout check of a later pass, and beyond
\* CAPTURE_TIMEOUT_MS its value makes no difference.
Sleep ==
  /\ pc = "sleep"
  /\ pc' = "cmd"
  /\ elapsed' = Min(elapsed + TickMs, CAPTURE_TIMEOUT_MS)
  /\ resp' = "none"
  /\ UNCHANGED <<state, last_slot, pending_cmd, pending_at, recording, armed, edges, irqs,
                 pulses, pulse_count, radio, files, replayVars>>

(* ---------------- replay (blocks the main loop) ---------------- *)
\* what one step of replay() leaves alone
replayFixed == <<state, last_slot, pending_cmd, pending_at, files, recording, armed, edges,
                 irqs, pulses, pulse_count, elapsed, ret, frame, repeats>>

\* mutant: no check for an empty frame
ReplayEnter_mut ==
  /\ pc = "replay_enter"
  /\ resp' = "none"
  /\ replaying' = TRUE
  /\ radio' = "tx"
  /\ line' = 0
  /\ pc' = "replay_loop"
  /\ UNCHANGED <<replayFixed, rep, idx, returned, replay_log>>

\* replay(): from the call to the for loop; an empty frame returns False
ReplayEnter ==
  /\ pc = "replay_enter"
  /\ resp' = "none"
  /\ IF frame = <<>>
     THEN /\ returned' = "false"
          /\ pc' = "replay_ret"
          /\ UNCHANGED <<replaying, radio, line>>
     ELSE /\ replaying' = TRUE
          /\ radio' = "tx"
          /\ line' = 0
          /\ pc' = "replay_loop"
          /\ UNCHANGED returned
  /\ UNCHANGED <<replayFixed, rep, idx, replay_log>>

\* the for loop of replay(), from repetition k (0-based) on: what it does,
\* in order - progress_cb(rep + 1, repeats), then _replay_frame
RECURSIVE ReplayLoopEvents(_, _, _)
ReplayLoopEvents(k, n, log) ==
  IF k >= n THEN log
  ELSE ReplayLoopEvents(k + 1, n,
         log \o << [ev |-> "progress", cur |-> k + 1, total |-> n],
                   [ev |-> "frame", cur |-> k + 1, total |-> n] >>)

\* replay(): the whole for loop in one step; the line is low after each frame
ReplayLoop ==
  /\ pc = "replay_loop"
  /\ rep < repeats
  /\ replay_log' = ReplayLoopEvents(rep, repeats, replay_log)
  /\ rep' = repeats
  /\ line' = 0
  /\ resp' = "none"
  /\ UNCHANGED <<replayFixed, replaying, radio, idx, returned, pc>>

\* mutant: the callback is given the 0-based loop index
ReplayProgress_mut ==
  /\ pc = "replay_loop"
  /\ rep < repeats
  /\ replay_log' = Append(replay_log, [ev |-> "progress", cur |-> rep, total |-> repeats])
  /\ pc' = "replay_frame"
  /\ resp' = "none"
  /\ UNCHANGED <<replayFixed, replaying, radio, line, rep, idx, returned>>

\* replay(): the for loop statement by statement. Top of the loop body:
\* progress_cb(rep + 1, repeats)
ReplayProgress ==
  /\ pc = "replay_loop"
  /\ rep < repeats
  /\ replay_log' = Append(replay_log, [ev |-> "progress", cur |-> rep + 1, total |-> repeats])
  /\ pc' = "replay_frame"
  /\ resp' = "none"
  /\ UNCHANGED <<replayFixed, replaying, radio, line, rep, idx, returned>>

\* _replay_frame: dio2.value(1) of pulse idx
ReplayPulseHigh ==
  /\ pc = "replay_frame"
  /\ idx < Len(frame)
  /\ line = 0
  /\ line' = 1
  /\ UNCHANGED <<replayFixed, replaying, radio, rep, idx, returned, replay_log, pc, resp>>

\* _replay_frame: dio2.value(0) of pulse idx
ReplayPulseLow ==
  /\ pc = "replay_frame"
  /\ line = 1
  /\ line' = 0
  /\ idx' = idx + 1
  /\ UNCHANGED <<replayFixed, replaying, radio, rep, returned, replay_log, pc, resp>>

\* the frame is out: inter-frame gap, next repetition
ReplayGap ==
  /\ pc = "replay_frame"
  /\ idx = Len(frame)
  /\ line' = 0
  /\ idx' = 0
  /\ rep' = rep + 1
  /\ replay_log' = Append(replay_log, [ev |-> "frame", cur |-> rep + 1, total |-> repeats])
  /\ pc' = "replay_loop"
  /\ UNCHANGED <<replayFixed, replaying, radio, returned, resp>>

\* mutant: the radio is left transmitting
ReplayFinish_mut ==
  /\ pc = "replay_loop"
  /\ rep >= repeats
  /\ line' = 0
  /\ replaying' = FALSE
  /\ returned' = "true"
  /\ pc' = "replay_ret"
  /\ resp' = "none"
  /\ UNCHANGED <<replayFixed, radio, rep, idx, replay_log>>

\* replay(): after the loop
ReplayFinish ==
  /\ pc = "replay_loop"
  /\ rep >= repeats
  /\ line' = 0
  /\ radio' = "idle"
  /\ replaying' = FALSE
  /\ returned' = "true"
  /\ pc' = "replay_ret"
  /\ resp' = "none"
  /\ UNCHANGED <<replayFixed, rep, idx, replay_log>>

\* mutant: the handler does not go back to Idle
AfterReplay_mut ==
  /\ pc = "replay_ret"
  /\ resp' = IF ret = "legacy" THEN "Playback complete" ELSE "none"
  /\ pc' = IF ret = "button" THEN "timeout" ELSE "button"
  /\ ret' = "none"
  /\ rep' = 0
  /\ frame' = <<>>
  /\ returned' = "none"
  /\ replay_log' = <<>>
  /\ UNCHANGED <<state, last_slot, pending_cmd, pending_at, files, recorderVars, replaying,
                 line, repeats, idx>>

\* the rest of the handler that called replay(): its result is not looked at
AfterReplay ==
  /\ pc = "replay_ret"
  /\ state' = STATE_IDLE
  /\ resp' = IF ret = "legacy" THEN "Playback complete" ELSE "none"
  /\ pc' = IF ret = "button" THEN "timeout" ELSE "button"
  /\ ret' = "none"
  /\ rep' = 0
  /\ frame' = <<>>
  /\ returned' = "none"
  /\ replay_log' = <<>>
  /\ UNCHANGED <<last_slot, pending_cmd, pending_at, files, recorderVars, replaying, line,
                 repeats, idx>>

(* ---------------- interrupts ---------------- *)
\* BLEService._irq (_IRQ_GATTS_WRITE) -> App._handle_command
BleWrite(cmds) ==
  \E c \in cmds :
    /\ pending_cmd' = c
    /\ pending_at' = state
    /\ UNCHANGED <<state, last_slot, files, recorderVars, replayVars, pc, resp>>

\* the timestamp read by the handler, dt after the previous edge
NextTick(e, t0, dt) == IF e = <<>> THEN t0 ELSE (e[Len(e)] + dt) % TICKS_PERIOD

\* DIO2 edge interrupt, at most limit times per session
EdgeIrq(limit) ==
  /\ armed
  /\ irqs < limit
  /\ \E t0 \in StartTicks, dt \in Deltas :
       edges' = irq_handler(edges, NextTick(edges, t0, dt))
  /\ irqs' = irqs + 1
  /\ UNCHANGED <<state, last_slot, pending_cmd, pending_at, recording, pulses, pulse_count,
                 elapsed, radio, armed, files, replayVars, pc, resp>>

MainLoop ==
  \/ LoopCommand
  \/ CheckButton
  \/ CheckRecordingTimeout
  \/ Sleep
  \/ ReplayEnter
  \/ ReplayLoop
  \/ ReplayFinish
  \/ AfterReplay

Next ==
  \/ MainLoop
  \/ BleWrite(Commands)
  \/ EdgeIrq(MaxEdges)

Spec == Init /\ [][Next]_vars
\* the commands that drive the lifecycle, on the one valid slot
LifecycleCommands ==
  {c \in Commands : c.verb \in {"record", "stop"}
                     \/ (c.verb \in {"play", "save"} /\ c.slot = 1)}
NextLifecycle ==
  \/ MainLoop
  \/ BleWrite(LifecycleCommands)
  \/ EdgeIrq(MaxEdges)

\* the main loop is the only thing that runs on its own (it never blocks
\* but in replay, which ends); interrupts are driven by the environment
FairSpec == Init /\ [][NextLifecycle]_vars /\ WF_vars(MainLoop)

\* a recording session fed with more edges than the buffer holds: the
\* record command is taken by the main loop, then the edge interrupt runs
\* on its own (reconstruction of a full buffer is not part of this one)
RecordCmd == [verb |-> "record", slot |-> NoSlot, name |-> ""]
NextCap ==
  \/ LoopCommand
  \/ BleWrite({RecordCmd})
  \/ EdgeIrq(MAX_PULSES * 2 + ExtraEdges)

SpecCap == Init /\ [][NextCap]_vars

\* replay() on its own, statement by statement, for frames and repeat
\* counts of the caller's choice: the state is the one a play handler is
\* in when it calls replay(), and the handler's tail follows the return
ReplayFrames ==
  { <<>>,
    << [high |-> 350, low |-> 1050] >>,
    << [high |-> 350, low |-> 1050], [high |-> 1050, low |-> 0] >> }
RepeatCounts == (0 .. MaxRepeats) \cup {REPLAY_REPEATS}
InitReplay ==
  /\ state = STATE_REPLAYING
  /\ last_slot = 1
  /\ pending_cmd = NoCmd
  /\ pending_at = STATE_IDLE
  /\ recording = FALSE
  /\ replaying = FALSE
  /\ armed = FALSE
  /\ edges = <<>>
  /\ irqs = 0
  /\ pulses = <<>>
  /\ pulse_count = 0
  /\ elapsed = 0
  /\ radio = "idle"
  /\ line = 0
  /\ files = [s \in SlotPaths |-> Missing]
  /\ pc = "replay_enter"
  /\ ret = "json"
  /\ rep = 0
  /\ frame \in ReplayFrames
  /\ repeats \in RepeatCounts
  /\ idx = 0
  /\ returned = "none"
  /\ replay_log = <<>>
  /\ resp = "ok play"
NextReplay ==
  \/ ReplayEnter
  \/ ReplayProgress
  \/ ReplayPulseHigh
  \/ ReplayPulseLow
  \/ ReplayGap
  \/ ReplayFinish
  \/ AfterReplay
SpecReplay == InitReplay /\ [][NextReplay]_vars
\* replay() is straight-line code of the main loop: it keeps running
FairSpecReplay == SpecReplay /\ WF_vars(NextReplay)

\* the slot store driven through the command handlers, after a capture has
\* been stopped: the capture is one of StoreCaptures, the commands are
\* save, delete, play and list on two valid and two invalid slot numbers
\* the timestamps of edges that are iv apart, the first one at t0
EdgesFrom(t0, iv) ==
  [k \in 1 .. (Len(iv) + 1) |-> (t0 + SumRange(iv, 1, k - 1)) % TICKS_PERIOD]
\* times between edges: a capture too short to be a signal, a train without
\* a sync gap, a train with two sync gaps, and a train with one
StoreCaptures ==
  { <<400, 400, 400>>,
    <<400, 400, 400, 400, 400, 400, 400, 400>>,
    <<350, 1050, 1050, 350, 350, 1050, 350, 9000,
      350, 1050, 1050, 350, 1050, 350, 350, 9000,
      350, 1050, 1050, 350>>,
    <<350, 1050, 1050, 350, 350, 1050, 1050, 350, 350, 9000,
      1050, 350, 350, 1050>> }
StoreSlots == {0, 1, MAX_SLOTS, MAX_SLOTS + 1}
StoreCommands ==
  [verb : {"save"}, slot : StoreSlots, name : NameInputs]
  \cup [verb : {"delete", "play"}, slot : {1, MAX_SLOTS}, name : {""}]
  \cup [verb : {"other"}, slot : {NoSlot}, name : {""}]
\* the state of the application when the main loop comes round after a
\* capture of one of caps has been stopped
InitCaptured(caps) ==
  /\ pending_cmd = NoCmd
  /\ pending_at = STATE_IDLE
  /\ last_slot = 1
  /\ recording = FALSE
  /\ replaying = FALSE
  /\ armed = FALSE
  /\ \E t0 \in StartTicks, iv \in caps : edges = EdgesFrom(t0, iv)
  /\ irqs = Len(edges)
  /\ pulses = ProcessEdges(edges)
  /\ pulse_count = Len(pulses)
  /\ state = IF has_signal(pulses) THEN STATE_CAPTURED ELSE STATE_IDLE
  /\ elapsed = CAPTURE_TIMEOUT_MS
  /\ radio = "idle"
  /\ line = 0
  /\ files = [s \in SlotPaths |-> Missing]
  /\ pc = "cmd"
  /\ ret = "none"
  /\ rep = 0
  /\ frame = <<>>
  /\ repeats = REPLAY_REPEATS
  /\ idx = 0
  /\ returned = "none"
  /\ replay_log = <<>>
  /\ resp = "none"
InitStore == InitCaptured(StoreCaptures)
NextStore ==
  \/ MainLoop
  \/ BleWrite(StoreCommands)
SpecStore == InitStore /\ [][NextStore]_vars

\* detect_protocol and extract_single_frame on captured pulse trains of the
\* caller's choice: the capture is stopped, then one save command is
\* processed, which extracts the frame and classifies the capture.
\* A train is given by its high and low durations
TrainOf(highs, lows) == [i \in 1 .. Len(highs) |-> [high |-> highs[i], low |-> lows[i]]]
\* n pulses whose highs alternate between a and b
Alternating(n, a, b) == [i \in 1 .. n |-> IF i % 2 = 1 THEN a ELSE b]
\* n lows of m, but big at the positions in at
LowsWith(n, m, at, big) == [i \in 1 .. n |-> IF i \in at THEN big ELSE m]
\* the times between the edges of a train
Flatten(t) ==
  [i \in 1 .. (2 * Len(t)) |-> IF i % 2 = 1 THEN t[(i + 1) \div 2].high ELSE t[i \div 2].low]

\* trains for detect_protocol: 3:1 highs with one long low at the end, for
\* frame lengths around the PT2262 and EV1527 ranges; a long low in the
\* middle; lows at and around 70 % of the longest; a longest low of 6, 8
\* and exactly 5 times the mean; high ratios on and around the band edges,
\* with exact means and with rounded ones (ratios of exactly 2.5 that come
\* out as 2.50000024 in single and as 2.5000000000000004 in double
\* precision, and one of exactly 3.5 that comes out as 3.49999976 in single
\* precision); one population only; and trains longer than the window of 50
ClassifyTrains ==
  { TrainOf(Alternating(n, 350, 1050), LowsWith(n, 300, {n}, 3000))
      : n \in {10, 11, 14, 15, 18, 19, 22, 23} }
  \cup { TrainOf(Alternating(n, 350, 1050), LowsWith(n, 300, {n}, big))
           : n \in {12, 20}, big \in {1800, 2400} }
  \cup { TrainOf(Alternating(20, 350, 1050), LowsWith(20, 300, {12}, 3000)) }
  \cup { TrainOf(Alternating(16, 350, 1050),
                 [LowsWith(16, 300, {16}, 3000) EXCEPT ![12] = near])
           : near \in {2100, 2101} }
  \cup { TrainOf(Alternating(13, 350, 1050), LowsWith(13, 300, {13}, big))
           : big \in {2249, 2250, 2251} }
  \cup { TrainOf(Alternating(6, a, b), LowsWith(6, 300, {}, 0))
           : a \in {350}, b \in {874, 875, 876, 1050, 1224, 1225, 1226, 1750} }
  \cup { TrainOf(Alternating(6, a, a), LowsWith(6, 300, {}, 0)) : a \in {400, 1000} }
  \cup { TrainOf(<<256, 641, 257, 642, 257, 642>>, LowsWith(6, 300, {}, 0)),
         TrainOf(<<257, 643, 257, 643, 258, 644>>, LowsWith(6, 300, {}, 0)),
         TrainOf(<<172, 604, 173, 604, 173, 605>>, LowsWith(6, 300, {}, 0)) }
  \cup { TrainOf(Alternating(60, 350, 1050),
                 [LowsWith(60, 250, {12}, first) EXCEPT ![55] = 10000])
           : first \in {250, 2000} }
\* trains for extract_single_frame: 8 pulses with up to 3 long lows at any
\* positions, and a train of 3 pulses
FrameTrains ==
  { TrainOf(Alternating(8, 400, 400), LowsWith(8, 300, at, 3000))
      : at \in {k \in SUBSET (1 .. 8) : Cardinality(k) <= 3} }
  \cup { TrainOf(Alternating(3, 400, 400), LowsWith(3, 300, {2}, 3000)) }
SignalCaptures == {Flatten(t) : t \in ClassifyTrains \cup FrameTrains}
SaveCmd == [verb |-> "save", slot |-> 1, name |-> "door"]
InitSignal == InitCaptured(SignalCaptures)
NextSignal ==
  \/ LoopCommand
  \/ BleWrite({SaveCmd})
SpecSignal == InitSignal /\ [][NextSignal]_vars

\* the slot store fed with the captures of FrameTrains (sync pulses at any
\* positions, next to each other and at either end of the train): slot 1
\* is saved, played and deleted through the command handlers
FrameCaptures == {Flatten(t) : t \in FrameTrains}
FrameCommands == {c \in StoreCommands : c.slot = 1}
InitFrame == InitCaptured(FrameCaptures)
NextFrame ==
  \/ MainLoop
  \/ BleWrite(FrameCommands)
SpecFrame == InitFrame /\ [][NextFrame]_vars

\* _process_edges on edge buffers of the caller's choice: a recording
\* session is running with the buffer filled, then one stop command is
\* processed, which reconstructs the pulses.
\* Times between edges: glitches of 40 and 100, a pulse, a frame gap
ReconIntervals == {40, 100, 1000, 12000}
RECURSIVE SeqsOf(_, _)
SeqsOf(S, n) ==
  IF n = 0 THEN {<<>>} ELSE {Append(q, x) : q \in SeqsOf(S, n - 1), x \in S}
ReconCaptures == UNION {SeqsOf(ReconIntervals, n) : n \in 3 .. MaxIntervals}
InitRecording(caps) ==
  /\ state = STATE_RECORDING
  /\ pending_cmd = NoCmd
  /\ pending_at = STATE_IDLE
  /\ last_slot = 1
  /\ recording = TRUE
  /\ replaying = FALSE
  /\ armed = TRUE
  /\ \E t0 \in StartTicks, iv \in caps : edges = EdgesFrom(t0, iv)
  /\ irqs = Len(edges)
  /\ pulses = <<>>
  /\ pulse_count = 0
  /\ elapsed = SETTLE_MS
  /\ radio = "rx"
  /\ line = 0
  /\ files = [s \in SlotPaths |-> Missing]
  /\ pc = "cmd"
  /\ ret = "none"
  /\ rep = 0
  /\ frame = <<>>
  /\ repeats = REPLAY_REPEATS
  /\ idx = 0
  /\ returned = "none"
  /\ replay_log = <<>>
  /\ resp = "none"
InitRecon == InitRecording(ReconCaptures)
NextRecon ==
  \/ LoopCommand
  \/ BleWrite({StopCmd})
SpecRecon == InitRecon /\ [][NextRecon]_vars

\* the same on edge buffers with intervals on and around the anchor
\* threshold MAX_GAP_US // 2: a glitch, a pulse, 10000 and 10001
AnchorIntervals == {40, 1000, MAX_GAP_US \div 2, MAX_GAP_US \div 2 + 1}
AnchorCaptures == UNION {SeqsOf(AnchorIntervals, n) : n \in 3 .. MaxIntervals}
InitAnchor == InitRecording(AnchorCaptures)
SpecAnchor == InitAnchor /\ [][NextRecon]_vars
(* ======================= properties ======================= *)
\* the main loop takes the pending command with verb v and processes it
CmdStep(v) == pc = "cmd" /\ pc' # "cmd" /\ pending_cmd.verb = v
\* stop processing runs: an explicit stop, the button, or the timeout
StopProcessed ==
  \/ CmdStep("stop")
  \/ pc \in {"button", "timeout"} /\ pc' # pc /\ resp' # "none"
\* everything but the main loop's position, the pending command and the reply
appVars == <<state, last_slot, files, recorderVars, replayVars>>
EdgeCapacity == 2 * MAX_PULSES

\* C1: a play request processed while Recording does not switch the radio
\* to transmit and leaves the recording session intact (state Recording,
\* capture armed, radio in receive mode); no replay runs during a session.
C1_PlayLeavesRecordingIntact ==
  [][(CmdStep("play") /\ state = STATE_RECORDING)
       => (state' = STATE_RECORDING /\ armed' /\ radio' = "rx" /\ ~replaying')]_vars

\* C2: stop processed while Recording ends in Captured exactly when the
\* reconstruction of the captured edges has at least 4 pulses; otherwise it
\* ends in Idle and reports "No signal detected".
C2_StopOutcome ==
  [][(StopProcessed /\ state = STATE_RECORDING)
       => /\ pulses' = ProcessEdges(edges)
          /\ (state' = STATE_CAPTURED <=> Len(pulses') >= 4)
          /\ (Len(pulses') < 4 => state' = STATE_IDLE /\ resp' = "No signal detected")]_vars
C2_Witness ==
  state = STATE_CAPTURED /\ resp = "ok stop" /\ Len(pulses) >= 4 /\ ~recording

\* C3: a record request processed while Recording is answered Busy and
\* changes nothing: state, edge buffer, capture start time, radio mode.
C3_RecordWhileRecordingBusy ==
  [][(CmdStep("record") /\ state = STATE_RECORDING)
       => (resp' = "Busy" /\ UNCHANGED appVars)]_vars
C3_Witness ==
  /\ state = STATE_RECORDING /\ resp = "Busy"
  /\ edges # <<>> /\ elapsed > SETTLE_MS /\ radio = "rx" /\ armed

\* C4: a record request delivered by the BLE write interrupt while the
\* state is Replaying is answered Busy and starts no recording.
C4_RecordDuringReplayBusy ==
  [][(CmdStep("record") /\ pending_at = STATE_REPLAYING)
       => (resp' = "Busy" /\ state' # STATE_RECORDING /\ UNCHANGED recorderVars)]_vars

\* C5: a stop request processed in Idle or Captured is answered
\* "Not recording" and changes nothing: state, pulses, radio mode.
C5_StopWhenNotRecording ==
  [][(CmdStep("stop") /\ state \in {STATE_IDLE, STATE_CAPTURED})
       => (resp' = "Not recording" /\ UNCHANGED appVars)]_vars
C5_Witness ==
  state = STATE_CAPTURED /\ resp = "Not recording" /\ pulses # <<>> /\ radio = "idle"

\* C6: once the lifecycle is in Recording, the main loop eventually runs
\* stop processing: capture is disarmed and the state is Captured or Idle.
C6_RecordingEventuallyStopped ==
  (state = STATE_RECORDING)
    ~> (~armed /\ ~recording /\ state \in {STATE_IDLE, STATE_CAPTURED})

\* C7: after n edge interrupts the buffer holds min(n, 2 * MAX_PULSES)
\* timestamps; an edge interrupt never changes what is already stored, and
\* on a full buffer it changes nothing.
C7_EdgeBufferBounded ==
  [][/\ Len(edges') = Min(irqs', EdgeCapacity)
     /\ (irqs' = irqs + 1 =>
           /\ SubSeq(edges', 1, Len(edges)) = edges
           /\ (Len(edges) = EdgeCapacity => edges' = edges))]_vars
C7_Witness == Len(edges) = EdgeCapacity /\ irqs > EdgeCapacity

\* C8: stop processing on fewer than 4 captured edges leaves an empty
\* Signal, has_signal false, and the state Idle.
C8_FewEdgesNoSignal ==
  [][(StopProcessed /\ state = STATE_RECORDING /\ Len(edges) < 4)
       => (pulses' = <<>> /\ state' = STATE_IDLE /\ resp' = "No signal detected")]_vars
C8_Witness ==
  /\ state = STATE_IDLE /\ resp = "No signal detected"
  /\ Len(edges) = 3 /\ pulses = <<>> /\ ~armed

\* C9: record processed in Idle or Captured enters Recording with the
\* radio receiving and capture armed on an empty buffer, and discards the
\* captured Signal: until stop processing yields a new one, pulses stay
\* empty and a save writes nothing.
C9_RecordStartsFreshSession ==
  [][/\ (CmdStep("record") /\ state \in {STATE_IDLE, STATE_CAPTURED})
          => /\ state' = STATE_RECORDING /\ radio' = "rx" /\ armed' /\ recording'
             /\ edges' = <<>> /\ pulses' = <<>>
     /\ (pulses = <<>> /\ pulses' # <<>> => StopProcessed)
     /\ (CmdStep("save") /\ pulses = <<>> => files' = files)]_vars
C9_Witness ==
  /\ state = STATE_RECORDING /\ resp = "ok record" /\ radio = "rx" /\ armed
  /\ edges = <<>> /\ pulses = <<>> /\ files[1].kind = "record"

\* C10: from Captured, a save that persists the record ends in Idle; a
\* save with a slot outside 1..MAX_SLOTS fails and stays in Captured.
C10_SaveFromCaptured ==
  [][(CmdStep("save") /\ state = STATE_CAPTURED /\ pending_cmd.slot # NoSlot)
       => /\ (resp' = "ok save" =>
                state' = STATE_IDLE /\ files'[pending_cmd.slot].kind = "record")
          /\ (files' # files /\ files'[pending_cmd.slot].kind = "record"
                => state' = STATE_IDLE /\ resp' = "ok save")
          /\ (pending_cmd.slot \notin 1 .. MAX_SLOTS =>
                state' = STATE_CAPTURED /\ resp' = "Save failed" /\ files' = files)]_vars
C10_Witness ==
  state = STATE_CAPTURED /\ resp = "Save failed" /\ pc = "button" /\ has_signal(pulses)
\* C11: a replay that was started ends on its own for every repeat count -
\* replay() returns - and lifecycle state Replaying is always eventually
\* followed by Idle.
C11_ReplayTerminates ==
  /\ (pc = "replay_enter") ~> (returned # "none")
  /\ (state = STATE_REPLAYING) ~> (state = STATE_IDLE)
C11_Witness ==
  state = STATE_IDLE /\ repeats = REPLAY_REPEATS /\ pc = "button" /\ ~replaying

\* C12: whenever replay() returns after transmitting, the output line is
\* low, the radio is stopped (idle) and the replaying flag is cleared.
C12_ReplayLeavesRadioIdle ==
  (pc = "replay_ret" /\ returned = "true")
    => (line = 0 /\ radio = "idle" /\ ~replaying)
C12_Witness ==
  /\ pc = "replay_ret" /\ returned = "true"
  /\ rep = REPLAY_REPEATS /\ Len(frame) = 2
  /\ Len(replay_log) = 2 * REPLAY_REPEATS

\* C13: replay() of an empty frame returns False without transmitting: the
\* radio is not switched to transmit, the line is not driven, the progress
\* callback is not invoked and the replaying flag stays false.
C13_EmptyFrameNotTransmitted ==
  [][(pc = "replay_enter" /\ frame = <<>> /\ pc' # pc)
       => /\ returned' = "false" /\ pc' = "replay_ret"
          /\ radio' = radio /\ radio' # "tx"
          /\ line' = line
          /\ replay_log' = <<>>
          /\ ~replaying /\ ~replaying']_vars
C13_Witness ==
  /\ pc = "replay_ret" /\ returned = "false" /\ frame = <<>>
  /\ repeats = REPLAY_REPEATS /\ radio = "idle" /\ replay_log = <<>>

\* C14 as stated: the progress callback is invoked exactly N times with
\* (k, N), k = 1 .. N in increasing order, each invocation k after frame k
\* has been transmitted, and all N of them by the time the radio is
\* switched back.
C14_ProgressAfterEachRepeat ==
  LET prog == SelectSeq(replay_log, LAMBDA e : e.ev = "progress")
  IN  /\ \A k \in 1 .. Len(prog) : prog[k].cur = k /\ prog[k].total = repeats
      /\ (returned = "true" => Len(prog) = repeats)
      /\ \A i \in 1 .. Len(replay_log) :
           replay_log[i].ev = "progress"
             => \E j \in 1 .. (i - 1) :
                  replay_log[j].ev = "frame" /\ replay_log[j].cur = replay_log[i].cur

\* C14 amended: the progress callback is invoked exactly N times with
\* (k, N), k = 1 .. N in increasing order, invocation k at the start of
\* repeat k - after frames 1 .. k-1 have been transmitted and before frame
\* k is - and all N of them by the time the radio is switched back.
C14_ProgressBeforeEachRepeat ==
  LET prog == SelectSeq(replay_log, LAMBDA e : e.ev = "progress")
  IN  /\ \A k \in 1 .. Len(prog) : prog[k].cur = k /\ prog[k].total = repeats
      /\ (returned = "true" => Len(prog) = repeats)
      /\ Len(prog) = (IF pc = "replay_frame" THEN rep + 1 ELSE rep)
      /\ \A i \in 1 .. Len(replay_log) :
           replay_log[i].ev = "progress"
             => Cardinality({j \in 1 .. (i - 1) : replay_log[j].ev = "frame"})
                  = replay_log[i].cur - 1
C14_Witness ==
  /\ pc = "replay_frame" /\ line = 1 /\ rep = REPLAY_REPEATS - 1
  /\ replay_log[Len(replay_log)]
       = [ev |-> "progress", cur |-> REPLAY_REPEATS, total |-> REPLAY_REPEATS]

\* C15: the radio is in exactly one of receive, transmit and idle: in
\* receive only while the state is Recording, in transmit only while it is
\* Replaying, and idle whenever the state is Idle or Captured.
C15_RadioFollowsLifecycle ==
  /\ radio \in {"idle", "rx", "tx"}
  /\ (radio = "rx" => state = STATE_RECORDING)
  /\ (radio = "tx" => state = STATE_REPLAYING)
  /\ (state \in {STATE_IDLE, STATE_CAPTURED} => radio = "idle")

\* C16: a save to slot 0 or MAX_SLOTS + 1 fails and leaves every slot
\* record as it was.
C16_SaveOutOfRangeRejected ==
  [][(CmdStep("save") /\ pending_cmd.slot \in {0, MAX_SLOTS + 1})
       => /\ files' = files
          /\ resp' = IF has_signal(pulses) THEN "Save failed" ELSE "No signal to save"
          /\ \A fs \in FsOutcomes, fp \in FloatTies :
               save_signal(files, pulses, pending_cmd.slot, pending_cmd.name, fs, fp)
                 = [result |-> "false", files |-> files]]_vars
C16_Witness ==
  /\ resp = "Save failed"
  /\ files[1].kind = "record" /\ files[MAX_SLOTS].kind = "record"

\* C17: after a successful save of the capture to a valid slot, load of
\* that slot returns the name that was saved and the extracted single frame
\* pulse by pulse, and list reports the slot with that name, the length of
\* that frame and the protocol tag that was saved with it.
C17_SaveLoadRoundTrip ==
  [][(CmdStep("save") /\ resp' = "ok save")
       => LET s == pending_cmd.slot
              l == load_signal(files', s)
              fr == extract_single_frame(pulses)
              ls == list_signals(files')
          IN  /\ s \in 1 .. MAX_SLOTS
              /\ l.found
              /\ l.pulses = fr /\ fr # <<>>
              /\ \E fmt \in {"json", "legacy"} : l.name = SaveName(pending_cmd, fmt)
              /\ \E i \in 1 .. Len(ls), fp \in FloatTies :
                   ls[i] = [slot |-> s, name |-> l.name, pulse_count |-> Len(fr),
                            protocol |-> detect_protocol(pulses, fp)]]_vars
C17_Witness ==
  /\ resp = "ok save" /\ last_slot = MAX_SLOTS
  /\ files[MAX_SLOTS].kind = "record"
  /\ files[MAX_SLOTS].pulse_count < Len(pulses)
  /\ files[MAX_SLOTS].protocol # "unknown"

\* C18: records exist only for slots 1 .. MAX_SLOTS; a successful save
\* replaces exactly the record of its slot and a successful delete removes
\* exactly the record of its slot; a delete on an empty slot fails and
\* changes neither the store nor the lifecycle state.
C18_SaveDeleteFrame ==
  [][/\ \A s \in SlotPaths \ (1 .. MAX_SLOTS) : files'[s] = Missing
     /\ (CmdStep("save") /\ resp' = "ok save")
          => /\ files'[pending_cmd.slot].kind = "record"
             /\ \A s \in SlotPaths \ {pending_cmd.slot} : files'[s] = files[s]
     /\ (CmdStep("delete") /\ resp' = "ok delete")
          => /\ files'[pending_cmd.slot] = Missing
             /\ files[pending_cmd.slot] # Missing
             /\ \A s \in SlotPaths \ {pending_cmd.slot} : files'[s] = files[s]
     /\ (CmdStep("delete") /\ pending_cmd.slot # NoSlot /\ files[pending_cmd.slot] = Missing)
          => /\ resp' = "Slot not found"
             /\ files' = files
             /\ state' = state]_vars
C18_Witness ==
  /\ resp = "ok delete"
  /\ files[1] = Missing /\ files[MAX_SLOTS].kind = "record"

\* C19: load of a slot whose file is missing or unparseable returns None
\* without raising and changes nothing; a play request for such a slot is
\* answered "Slot empty" and the state does not become Replaying.
C19_PlayMissingOrCorrupt ==
  [][(CmdStep("play") /\ pending_cmd.slot # NoSlot
        /\ files[pending_cmd.slot].kind \in {"missing", "corrupt"})
       => /\ ~load_signal(files, pending_cmd.slot).found
          /\ resp' = "Slot empty"
          /\ UNCHANGED appVars
          /\ state' # STATE_REPLAYING]_vars
C19_Witness ==
  /\ resp = "Slot empty"
  /\ files[1] = Corrupt /\ files[MAX_SLOTS] = Corrupt

\* C20: list returns one summary for each slot that holds a parseable
\* record and none for any other slot, in strictly ascending slot order; a
\* slot is listed exactly when load of it succeeds.
C20_ListMatchesLoad ==
  LET ls == list_signals(files)
      listed == {ls[i].slot : i \in 1 .. Len(ls)}
  IN  /\ \A i \in 1 .. (Len(ls) - 1) : ls[i].slot < ls[i + 1].slot
      /\ listed = {s \in SlotPaths : files[s].kind = "record"}
      /\ listed = {s \in SlotPaths : load_signal(files, s).found}
C20_Witness ==
  /\ Len(list_signals(files)) = 1
  /\ files[1] = Corrupt /\ files[MAX_SLOTS].kind = "record"
\* C21: every pulse of a reconstructed signal has a high duration of at
\* least MIN_PULSE_US; a shorter high is dropped, never stored.
C21_HighsAtLeastMinPulse ==
  \A i \in 1 .. Len(pulses) : pulses[i].high >= MIN_PULSE_US
\* a glitch of 40 us in front of three real intervals has been dropped
C21_Witness ==
  /\ ~recording
  /\ Intervals(edges) = <<40, 1000, 1000, 1000>>
  /\ pulses = <<[high |-> 1000, low |-> 1000]>>
\* iv[j] is at or above the glitch threshold and the n intervals before it
\* are a whole run of glitches: each below the threshold, and no glitch
\* before them
RunBefore(iv, j, n) ==
  /\ n >= 1 /\ j - n >= 1
  /\ iv[j] >= MERGE_THRESH
  /\ \A k \in (j - n) .. (j - 1) : iv[k] < MERGE_THRESH
  /\ (j - n > 1 => iv[j - n - 1] >= MERGE_THRESH)
\* the cleaned intervals that the first j intervals of iv give
CleanUpTo(iv, j) == MergeGlitches(SubSeq(iv, 1, j))

\* C22: when a stop reconstructs the capture, a run of an even number of
\* intervals below 250 us followed by an interval of at least 250 us comes
\* out as one cleaned interval, the run's total plus that interval, right
\* after what the intervals before the run gave; and the intervals
\* [1000, 100, 100, 1000] give exactly the pulses [(1000, 1200)].
C22_EvenRunMerged ==
  [][(CmdStep("stop") /\ state = STATE_RECORDING) =>
       LET iv == Intervals(edges)
       IN  /\ \A j \in 1 .. Len(iv), n \in 1 .. Len(iv) :
                 (RunBefore(iv, j, n) /\ n % 2 = 0) =>
                   CleanUpTo(iv, j) =
                     Append(CleanUpTo(iv, j - n - 1), SumRange(iv, j - n, j))
           /\ (iv = <<1000, 100, 100, 1000>> =>
                 pulses' = <<[high |-> 1000, low |-> 1200]>>)]_vars
C22_Witness ==
  /\ ~recording
  /\ Intervals(edges) = <<1000, 100, 100, 1000>>
  /\ pulses = <<[high |-> 1000, low |-> 1200]>>
\* the last n intervals of iv are a whole run of glitches
TrailingRun(iv, n) ==
  /\ n >= 1 /\ n <= Len(iv)
  /\ \A k \in (Len(iv) - n + 1) .. Len(iv) : iv[k] < MERGE_THRESH
  /\ (n < Len(iv) => iv[Len(iv) - n] >= MERGE_THRESH)

\* C30: when a stop reconstructs the capture, a run of an odd number of
\* intervals below 250 us followed by an interval of at least 250 us comes
\* out as a cleaned interval of its own, the run's total, only if the total
\* is at least MIN_PULSE_US (else it is dropped), and the following
\* interval comes out unmodified after it; a run pending at the end of the
\* walk comes out only if its count is odd and its total at least
\* MIN_PULSE_US.
C30_OddRunOwnInterval ==
  [][(CmdStep("stop") /\ state = STATE_RECORDING) =>
       LET iv == Intervals(edges)
           last == Len(iv)
       IN  /\ \A j \in 1 .. last, n \in 1 .. last :
                 (RunBefore(iv, j, n) /\ n % 2 = 1) =>
                   LET before == CleanUpTo(iv, j - n - 1)
                       total == SumRange(iv, j - n, j - 1)
                   IN  CleanUpTo(iv, j) =
                         Append(IF total >= MIN_PULSE_US
                                THEN Append(before, total) ELSE before, iv[j])
           /\ \A n \in 1 .. last :
                 TrailingRun(iv, n) =>
                   LET before == CleanUpTo(iv, last - n)
                       total == SumRange(iv, last - n + 1, last)
                   IN  CleanIntervals(edges) =
                         IF n % 2 = 1 /\ total >= MIN_PULSE_US
                         THEN Append(before, total) ELSE before
           /\ pulses' = PairIntervals(CleanIntervals(edges),
                                      AnchorStart(CleanIntervals(edges)))]_vars
\* a lone glitch of 40 us was dropped and a trailing one of 100 us kept
C30_Witness ==
  /\ ~recording
  /\ Intervals(edges) = <<1000, 40, 1000, 1000, 100>>
  /\ pulses = <<[high |-> 1000, low |-> 1000], [high |-> 1000, low |-> 100]>>
\* a save command is processed and the record is written
SaveStored == CmdStep("save") /\ resp' = "ok save"
\* the highs of p alternate between 350 and 1050
AlternatingHighs(p) ==
  \A i \in 1 .. Len(p) : p[i].high = IF i % 2 = 1 THEN 350 ELSE 1050
LowsOf(p) == [i \in 1 .. Len(p) |-> p[i].low]
\* exactly one low of p is k times the mean of the other lows
OneLowTimesRest(p, k) ==
  Cardinality({i \in 1 .. Len(p) :
                 p[i].low * (Len(p) - 1) = k * (SumSeq(LowsOf(p)) - p[i].low)}) = 1
\* the last low of p is k times every other low
LastLowTimesOthers(p, k) ==
  \A i \in 1 .. (Len(p) - 1) : p[Len(p)].low = k * p[i].low

\* C23 as stated: a train of N pulses whose highs alternate between 350 and
\* 1050 and in which exactly one low is 6 times the mean of the other lows
\* is classified PT2262 for N = 12 and EV1527 for N = 20.
C23_SixTimesClassified ==
  [][(SaveStored /\ Len(pulses) \in {12, 20}
        /\ AlternatingHighs(pulses) /\ OneLowTimesRest(pulses, 6))
       => files'[pending_cmd.slot].protocol =
            IF Len(pulses) = 12 THEN "PT2262" ELSE "EV1527"]_vars
\* C23 amended: such a train whose last low is 8 times each of the other
\* lows is classified PT2262 for N = 12 and EV1527 for N = 20; when the
\* last low is only 6 times the others it is classified PT2262/EV1527.
C23_EightTimesClassified ==
  [][(SaveStored /\ Len(pulses) \in {12, 20} /\ AlternatingHighs(pulses))
       => /\ (LastLowTimesOthers(pulses, 8) =>
                files'[pending_cmd.slot].protocol =
                  IF Len(pulses) = 12 THEN "PT2262" ELSE "EV1527")
          /\ (LastLowTimesOthers(pulses, 6) =>
                files'[pending_cmd.slot].protocol = "PT2262/EV1527")]_vars
C23_Witness ==
  /\ resp = "ok save"
  /\ Len(pulses) = 20 /\ AlternatingHighs(pulses)
  /\ LastLowTimesOthers(pulses, 8)
  /\ files[1].protocol = "EV1527"
\* the sums and counts of the short and the long highs of the window
ShortHighs(p) == SelectHighs(Window(p), TRUE)
LongHighs(p) == SelectHighs(Window(p), FALSE)
\* 2.5 < mean long / mean short < 3.5, in exact arithmetic
RatioStrictlyInside(p) ==
  LET x == 2 * SumSeq(LongHighs(p)) * Len(ShortHighs(p))
      y == SumSeq(ShortHighs(p)) * Len(LongHighs(p))
  IN  5 * y < x /\ x < 7 * y

\* C24: the protocol stored by a save is unknown whenever the short or the
\* long population of high durations is empty or the ratio of the mean long
\* to the mean short high is not strictly between 2.5 and 3.5.
C24_UnknownOutsideBand ==
  [][(SaveStored /\ (\/ ShortHighs(pulses) = <<>>
                     \/ LongHighs(pulses) = <<>>
                     \/ ~RatioStrictlyInside(pulses)))
       => files'[pending_cmd.slot].protocol = "unknown"]_vars
\* the 1-based positions of the sync pulses of p: low above 3 times the
\* mean low
SyncPulses(p) ==
  {i \in 1 .. Len(p) : p[i].low * Len(p) > 3 * SumSeq(LowsOf(p))}
FirstOf(S) == CHOOSE i \in S : \A j \in S : i <= j
FirstSync(p) == FirstOf(SyncPulses(p))
SecondSync(p) == FirstOf(SyncPulses(p) \ {FirstSync(p)})
\* the frame that a save has stored
StoredFrame(fl, slot) == PulsesFromJson(fl[slot].pulses)

\* C25 as stated: when the signal has at least two sync pulses, the stored
\* frame is the pulses strictly between the first and the second sync
\* pulse, neither of the two included.
C25_FrameExcludesBothSyncs ==
  [][(SaveStored /\ Cardinality(SyncPulses(pulses)) >= 2)
       => StoredFrame(files', pending_cmd.slot) =
            SubSeq(pulses, FirstSync(pulses) + 1, SecondSync(pulses) - 1)]_vars
\* C25 amended: the stored frame is the pulses after the first sync pulse
\* up to and including the second sync pulse; the first sync pulse and
\* everything before it is left out, the second sync pulse is the last
\* pulse of the frame.
C25_FrameEndsWithSecondSync ==
  [][(SaveStored /\ Cardinality(SyncPulses(pulses)) >= 2)
       => LET fr == StoredFrame(files', pending_cmd.slot)
          IN  /\ fr = SubSeq(pulses, FirstSync(pulses) + 1, SecondSync(pulses))
              /\ fr # <<>> /\ fr[Len(fr)] = pulses[SecondSync(pulses)]]_vars
\* sync pulses at positions 3 and 6 of 8: the frame is pulses 4 to 6
C25_Witness ==
  /\ resp = "ok save"
  /\ SyncPulses(pulses) = {3, 6}
  /\ StoredFrame(files, 1) = SubSeq(pulses, 4, 6)
\* the frame of p as the claim describes it
FrameOf(p) ==
  IF Len(p) < 4 \/ SyncPulses(p) = {} THEN p
  ELSE IF Cardinality(SyncPulses(p)) = 1 THEN SubSeq(p, 1, FirstSync(p))
  ELSE Slice(p, (FirstSync(p) - 1) + 1, (SecondSync(p) - 1) + 1)

\* C26: extract_single_frame returns the slice from index first_sync + 1 up
\* to but excluding second_sync + 1 (0-based) when at least two pulses have
\* a low above 3 times the mean low, the prefix up to and including the
\* sync pulse when exactly one has, and the whole signal when none has or
\* the signal has fewer than 4 pulses; applied again to a signal without
\* sync pulses it returns the same sequence; and a save stores this frame.
C26_FrameSlices ==
  /\ [](/\ extract_single_frame(pulses) = FrameOf(pulses)
        /\ (SyncPulses(pulses) = {} =>
              extract_single_frame(extract_single_frame(pulses)) = pulses))
  /\ [][SaveStored => StoredFrame(files', pending_cmd.slot) = FrameOf(pulses)]_vars
\* one sync pulse at position 5 of 8: the frame is pulses 1 to 5
C26_Witness ==
  /\ resp = "ok save"
  /\ SyncPulses(pulses) = {5}
  /\ StoredFrame(files, 1) = SubSeq(pulses, 1, 5)
\* the lows of the window, their maximum, and the number of pulses from the
\* start up to and including the first whose low exceeds 70 % of it
WindowLows(p) == LowsOf(Window(p))
CountToSync(p) ==
  FirstOf({i \in 1 .. Len(p) : 10 * p[i].low > 7 * MaxSeq(WindowLows(p))})
TagOfCount(n) ==
  IF 11 <= n /\ n <= 14 THEN "PT2262"
  ELSE IF 19 <= n /\ n <= 22 THEN "EV1527"
  ELSE "PT2262/EV1527"

\* C28 as stated: when the ratio of the highs matches, the stored protocol
\* is PT2262/EV1527 if the maximum low of the window is less than 5 times
\* the mean low; if it is at least 5 times the mean, exactly 5 times
\* included, it is the tag of the count n: PT2262 for 11..14, EV1527 for
\* 19..22, PT2262/EV1527 otherwise.
C28_AtLeastFiveTimes ==
  [][(SaveStored /\ RatioStrictlyInside(pulses))
       => LET lows == WindowLows(pulses)
          IN  files'[pending_cmd.slot].protocol =
                IF MaxSeq(lows) * Len(lows) >= 5 * SumSeq(lows)
                THEN TagOfCount(CountToSync(pulses))
                ELSE "PT2262/EV1527"]_vars
\* C28 amended: the tag of the count is returned only if the maximum low is
\* strictly more than 5 times the mean low; at exactly 5 times the mean, as
\* below it, the stored protocol is PT2262/EV1527.
C28_MoreThanFiveTimes ==
  [][(SaveStored /\ RatioStrictlyInside(pulses))
       => LET lows == WindowLows(pulses)
          IN  files'[pending_cmd.slot].protocol =
                IF MaxSeq(lows) * Len(lows) > 5 * SumSeq(lows)
                THEN TagOfCount(CountToSync(pulses))
                ELSE "PT2262/EV1527"]_vars
\* 13 pulses whose last low is exactly 5 times the mean low
C28_Witness ==
  /\ resp = "ok save"
  /\ Len(pulses) = 13 /\ RatioStrictlyInside(pulses)
  /\ MaxSeq(LowsOf(pulses)) * 13 = 5 * SumSeq(LowsOf(pulses))
  /\ CountToSync(pulses) = 13
  /\ files[1].protocol = "PT2262/EV1527"
\* the first 50 pulses of p
First50(p) == SubSeq(p, 1, Min(50, Len(p)))

\* C29: the tag depends only on the first 50 pulses of the signal:
\* detect_protocol of the signal equals detect_protocol of its first 50
\* pulses, the count of pulses up to the first long low never runs past the
\* 50th pulse, and the protocol a save stores is the tag of the first 50.
C29_OnlyFirstFifty ==
  /\ [](\A fp \in FloatTies :
          /\ detect_protocol(pulses, fp) = detect_protocol(First50(pulses), fp)
          /\ (PositiveLows(First50(pulses)) # <<>> =>
                FramePulses(pulses, MaxSeq(PositiveLows(Window(pulses)))) <= 50))
  /\ [][SaveStored =>
          \E fp \in FloatTies :
            files'[pending_cmd.slot].protocol = detect_protocol(First50(pulses), fp)]_vars
\* 60 pulses, a low of 2000 at pulse 12 and one of 10000 at pulse 55
C29_Witness ==
  /\ resp = "ok save"
  /\ Len(pulses) = 60
  /\ pulses[12].low = 2000 /\ pulses[55].low = 10000
  /\ files[1].protocol = "PT2262"
\* C27: the edge buffer is cleared by a record that starts a session, and
\* read by the reconstruction at a stop, only while the edge interrupt is
\* disarmed: the handler is not installed when start_recording resets the
\* buffer, and it has been removed when _process_edges reads it.
C27_BufferTouchedOnlyDisarmed ==
  [][/\ ((CmdStep("record") /\ resp' = "ok record") => ~armed)
     /\ ((StopProcessed /\ state = STATE_RECORDING) => ~armed')]_vars
\* the pulses that pairing from the 0-based index start gives: intervals
\* taken two at a time, a single one left over dropped
PairsFrom(clean, start) ==
  [k \in 1 .. ((Len(clean) - start) \div 2) |->
     [high |-> clean[start + 2 * k - 1], low |-> clean[start + 2 * k]]]

\* C31: when a stop reconstructs the capture, pairing starts right after
\* the first cleaned interval above 10000 us if there is one (that interval
\* and all before it are left out, the next one is the high of the first
\* pulse), and at the first cleaned interval if there is none; from there
\* the intervals are taken as non-overlapping (high, low) pairs and a
\* single trailing interval is dropped.
C31_PairingFromAnchor ==
  [][(CmdStep("stop") /\ state = STATE_RECORDING) =>
       LET clean == CleanIntervals(edges)
           big == {i \in 1 .. Len(clean) : clean[i] > 10000}
           anchor == IF big = {} THEN 0 ELSE FirstOf(big)
       IN  /\ pulses' = PairsFrom(clean, anchor)
           /\ (pulses' # <<>> => pulses'[1].high = clean[anchor + 1])
           /\ Len(pulses') = (Len(clean) - anchor) \div 2]_vars
\* an anchor of 10001 us after one interval, then three intervals: one
\* pulse, the last interval dropped
C31_Witness ==
  /\ ~recording
  /\ Intervals(edges) = <<1000, 10001, 1000, 1000, 1000>>
  /\ pulses = <<[high |-> 1000, low |-> 1000]>>
\* C33: when a stop reconstructs a capture of increasing edge timestamps,
\* every cleaned interval is at least MIN_PULSE_US; so the high filter of
\* the pairing drops no pair, the number of pulses is
\* floor((cleaned length - anchor start) / 2), and every pulse has a low
\* above zero, so that the low > 0 filters of detect_protocol and
\* extract_single_frame leave no pulse out.
C33_CleanedAtLeastMinPulse ==
  [][(CmdStep("stop") /\ state = STATE_RECORDING) =>
       LET clean == CleanIntervals(edges)
           start == AnchorStart(clean)
       IN  /\ \A i \in 1 .. Len(edges) - 1 : ticks_diff(edges[i + 1], edges[i]) > 0
           /\ \A i \in 1 .. Len(clean) : clean[i] >= MIN_PULSE_US
           /\ pulses' = PairsFrom(clean, start)
           /\ Len(pulses') = (Len(clean) - start) \div 2
           /\ \A i \in 1 .. Len(pulses') : pulses'[i].low > 0
           /\ PositiveLows(pulses') = LowsOf(pulses')]_vars
\* a glitch of 100 us kept as a high, one of 40 us dropped
C33_Witness ==
  /\ ~recording
  /\ Intervals(edges) = <<100, 1000, 1000, 40, 1000>>
  /\ pulses = <<[high |-> 100, low |-> 1000], [high |-> 1000, low |-> 1000]>>
\* C32: every record in the slot store holds a frame of at least one pulse
\* and a pulse_count equal to the frame's length; the frame of a captured
\* signal is never empty; and a replay of a frame loaded from a slot is
\* never given an empty frame, so it never returns False.
C32_SavedFrameNotEmpty ==
  /\ pulses # <<>> => extract_single_frame(pulses) # <<>>
  /\ \A s \in SlotPaths :
       files[s].kind = "record" =>
         /\ files[s].pulses # <<>>
         /\ files[s].pulse_count = Len(files[s].pulses)
         /\ load_signal(files, s).found
         /\ load_signal(files, s).pulses # <<>>
  /\ ret # "none" => frame # <<>>
  /\ returned # "false"
\* two sync pulses next to each other: the saved frame is the second sync
\* pulse alone, and its replay has run to the end
C32_Witness ==
  /\ Len(pulses) = 8
  /\ SyncPulses(pulses) = {3, 4}
  /\ files[1].kind = "record"
  /\ files[1].pulse_count = 1
  /\ StoredFrame(files, 1) = <<pulses[4]>>
  /\ frame = StoredFrame(files, 1)
  /\ returned = "true"
\* the main loop takes the pending command, whatever it is, and processes it
Executes == pc = "cmd" /\ pc' # "cmd" /\ pending_cmd # NoCmd
\* a write interrupt delivers a command
Delivers == pending_cmd' # NoCmd /\ <<pending_cmd, pending_at>>' # <<pending_cmd, pending_at>>
\* the replies the handler of a verb can send
Replies(v) ==
  IF v = "record" THEN {"ok record", "Busy"}
  ELSE IF v = "stop" THEN {"ok stop", "No signal detected", "Not recording"}
  ELSE IF v = "play" THEN {"ok play", "Missing slot", "Slot empty"}
  ELSE IF v = "save" THEN {"Missing slot", "No signal to save", "ok save",
                           "Save failed", "Save error"}
  ELSE IF v = "delete" THEN {"Missing slot", "ok delete", "Slot not found"}
  ELSE {"other"}
\* C34: a delivery only stores the command in the pending slot, replacing
\* what was there, and executes nothing; the slot is emptied only by the
\* main loop at the top of an iteration, outside any replay, in the very
\* step that processes the command it held, so that a command is processed
\* at most once per delivery and a replaced command is never processed.
C34_CommandsTakenOnceByMainLoop ==
  [][/\ (Delivers => UNCHANGED <<appVars, pc, resp>>)
     /\ (Executes => /\ pending_cmd' = NoCmd
                      /\ resp' \in Replies(pending_cmd.verb)
                      /\ ~replaying /\ ret = "none")
     /\ ((pending_cmd # NoCmd /\ pending_cmd' = NoCmd) => Executes)
     /\ (pc \notin {"cmd", "button", "timeout"} =>
           (resp' = resp \/ resp' \in {"none", "Playback complete"}))]_vars
\* a record command delivered while the replay that a play command started
\* is running: it waits in the slot and nothing has been done about it
C34_Witness ==
  /\ pc = "replay_loop"
  /\ replaying
  /\ ret # "button"
  /\ state = STATE_REPLAYING
  /\ pending_cmd.verb = "record"
  /\ pending_at = STATE_REPLAYING
====
